---- MODULE Spec2Model ----
(***************************************************************************)
(* Model of the object-storage streaming proxy (src/main.go).             *)
(*                                                                         *)
(* Strings are sequences of one-character strings, byte slices are        *)
(* sequences of small integers, int64 values are eight base-256 limbs     *)
(* (least significant first, two's complement), so that Go's wrapping     *)
(* multiplication is computed as the machine computes it.                  *)
(***************************************************************************)
EXTENDS Integers, Sequences, FiniteSets, TLC

VARIABLES
    globalConfig,   \* var globalConfig Config, as left by loadConfig
    r,              \* r[i]: the inbound *http.Request of request i
    pc,             \* pc[i]: position of handleRequest for request i
    bucketName,     \* handleRequest's local bucketName
    fileName,       \* handleRequest's local fileName
    presignedURL,   \* handleRequest's local presignedURL
    err,            \* handleRequest's local err
    getResponse,    \* handleRequest's local getResponse (upstream response)
    buffer,         \* handleRequest's local buffer
    w,              \* w[i]: what the http.ResponseWriter of request i has sent
    steps,          \* steps[i]: the calls handleRequest has made, in order
    upstream,       \* upstream[i]: what the backend answers to request i's GET
    call,           \* arguments of a direct getPresignedURL call pair
    ret             \* results of that call pair

vars == <<globalConfig, r, pc, bucketName, fileName, presignedURL, err,
          getResponse, buffer, w, steps, upstream, call, ret>>


(***************************************************************************)
(* Bounds of the model.                                                    *)
(***************************************************************************)
MaxRest == 6        \* longest path remainder after "/stream/"
MaxBody == 2        \* longest upstream body, in bytes
NumConcurrent == 2  \* requests in flight in the concurrent specification

(***************************************************************************)
(* int64 arithmetic on limbs.                                              *)
(***************************************************************************)
LimbBase == 256
Int64Limbs == 8

RECURSIVE ToLimbs(_, _)
\* the k low limbs of the natural number n
ToLimbs(n, k) ==
    IF k = 0 THEN <<>> ELSE <<n % LimbBase>> \o ToLimbs(n \div LimbBase, k - 1)

RECURSIVE AddLimbs(_, _, _)
\* a + b + carry, truncated to Len(a) limbs (Len(a) = Len(b))
AddLimbs(a, b, carry) ==
    IF a = <<>> THEN <<>>
    ELSE LET s == a[1] + b[1] + carry
         IN  <<s % LimbBase>> \o AddLimbs(Tail(a), Tail(b), s \div LimbBase)

RECURSIVE ScaleLimbs(_, _, _)
\* a * d + carry for one limb d, truncated to Len(a) limbs
ScaleLimbs(a, d, carry) ==
    IF a = <<>> THEN <<>>
    ELSE LET p == a[1] * d + carry
         IN  <<p % LimbBase>> \o ScaleLimbs(Tail(a), d, p \div LimbBase)

RECURSIVE MulLimbs(_, _)
\* a * b truncated to Len(a) limbs: the wrapping product of the machine
MulLimbs(a, b) ==
    IF b = <<>> \/ a = <<>> THEN a
    ELSE LET low  == ScaleLimbs(a, b[1], 0)
             rest == IF Len(a) = 1 \/ Len(b) = 1 THEN <<>>
                     ELSE MulLimbs(SubSeq(a, 1, Len(a) - 1), Tail(b))
         IN  IF rest = <<>> THEN low
             ELSE <<low[1]>> \o AddLimbs(Tail(low), rest, 0)

IsNegative(a) == a[Len(a)] >= LimbBase \div 2

\* sign extension of a two's complement number to n limbs
SignExtend(a, n) ==
    a \o [i \in 1..(n - Len(a)) |-> IF IsNegative(a) THEN LimbBase - 1 ELSE 0]

Int64(n) == ToLimbs(n, Int64Limbs)

Neg64(a) ==
    AddLimbs([i \in 1..Len(a) |-> LimbBase - 1 - a[i]], Int64(0), 1)

RECURSIVE UnsignedLess(_, _)
UnsignedLess(a, b) ==
    IF a = <<>> THEN FALSE
    ELSE LET n == Len(a)
         IN  IF a[n] # b[n] THEN a[n] < b[n]
             ELSE UnsignedLess(SubSeq(a, 1, n - 1), SubSeq(b, 1, n - 1))

\* signed a <= b on int64
LessEq64(a, b) ==
    IF IsNegative(a) # IsNegative(b) THEN IsNegative(a)
    ELSE a = b \/ UnsignedLess(a, b)

\* time.Second, in nanoseconds
Second == 1000000000

\* Go's int64 product lifetimeSecs * int64(time.Second), as a time.Duration
DurationOfSeconds(lifetimeSecs) == MulLimbs(lifetimeSecs, Int64(Second))

\* q * 10^9 + rem as an int64 (a way to write values above 2^31)
Int64Of(q, rem) == AddLimbs(MulLimbs(Int64(q), Int64(Second)), Int64(rem), 0)


(***************************************************************************)
(* Strings.                                                                *)
(***************************************************************************)
RECURSIVE Itoa(_)
\* fmt.Sprintf("%v", n) for a non-negative int: its decimal digits
Itoa(n) ==
    LET digit == <<"0", "1", "2", "3", "4", "5", "6", "7", "8", "9">>
    IN  IF n < 10 THEN <<digit[n + 1]>>
        ELSE Itoa(n \div 10) \o <<digit[(n % 10) + 1]>>

HasPrefix(s, prefix) ==
    Len(s) >= Len(prefix) /\ SubSeq(s, 1, Len(prefix)) = prefix

\* strings.TrimPrefix
TrimPrefix(s, prefix) ==
    IF HasPrefix(s, prefix) THEN SubSeq(s, Len(prefix) + 1, Len(s)) ELSE s

RECURSIVE Split(_, _)
\* strings.Split(s, sep) for a one-character sep: never empty, "" gives [""]
Split(s, sep) ==
    IF \A k \in 1..Len(s) : s[k] # sep THEN <<s>>
    ELSE LET k == CHOOSE j \in 1..Len(s) :
                      s[j] = sep /\ \A m \in 1..(j - 1) : s[m] # sep
         IN  <<SubSeq(s, 1, k - 1)>> \o Split(SubSeq(s, k + 1, Len(s)), sep)

RECURSIVE Join(_, _)
\* strings.Join(elems, sep)
Join(elems, sep) ==
    IF elems = <<>> THEN <<>>
    ELSE IF Len(elems) = 1 THEN elems[1]
    ELSE elems[1] \o <<sep>> \o Join(Tail(elems), sep)

(***************************************************************************)
(* Path parsing.  Go indexes from 0: segments[1] is the second element.    *)
(***************************************************************************)
\* segments[1] panics with "index out of range" when len(segments) < 2
extractBucketNamePanics(path) == Len(Split(path, "/")) < 2

extractBucketName(path) == Split(path, "/")[2]

\* segments[2:] panics when len(segments) < 2
extractFileNamePanics(path) == Len(Split(path, "/")) < 2

extractFileName(path) ==
    LET segments == Split(path, "/")
    IN  Join(SubSeq(segments, 3, Len(segments)), "/")

(***************************************************************************)
(* URL resolution.                                                         *)
(***************************************************************************)
\* the empty URL string returned with an error
NoURL == [signer |-> "", bucket |-> <<>>, key |-> <<>>, expires |-> Int64(0)]
NoError == ""
ErrUnsupported == "unsupported object storage service"
ErrClient == "client construction failed"
ErrPresign == "presign failed"

\* what the storage SDK calls of one resolution do: succeed, fail to build
\* the client, or fail to sign
LibOutcomes == {"ok", "client_error", "presign_error"}

\* the lifetime handleRequest asks for
RequestLifetimeSecs == 10

\* the validity the minio branch asks for: time.Second*60
MinioExpirySecs == 60

\* Presigner.GetObject asking for the minio branch's fixed validity
PresignerExpiresFixed(lifetimeSecs) == DurationOfSeconds(Int64(MinioExpirySecs))

\* opts.Expires as set by Presigner.GetObject
PresignerExpires(lifetimeSecs) == DurationOfSeconds(lifetimeSecs)

\* Presigner.GetObject: the presigned request, or the SDK's error
PresignerGetObject(bucket, objectKey, lifetimeSecs, lib) ==
    IF lib = "presign_error" THEN [url |-> NoURL, err |-> ErrPresign]
    ELSE [url |-> [signer |-> "aws", bucket |-> bucket, key |-> objectKey,
                   expires |-> PresignerExpires(lifetimeSecs)],
          err |-> NoError]

\* the minio branch of getPresignedURL
MinioPresignedGetObject(bucket, objectKey, lifetimeSecs, lib) ==
    IF lib = "client_error" THEN [url |-> NoURL, err |-> ErrClient]
    ELSE IF lib = "presign_error" THEN [url |-> NoURL, err |-> ErrPresign]
    ELSE [url |-> [signer |-> "minio", bucket |-> bucket, key |-> objectKey,
                   expires |-> DurationOfSeconds(Int64(MinioExpirySecs))],
          err |-> NoError]

\* getPresignedURL whose last branch falls through to the S3 branch
getPresignedURLFallsThrough(config, bucket, file, lifetimeSecs, lib) ==
    IF config.ServiceName = "minio"
    THEN MinioPresignedGetObject(bucket, file, lifetimeSecs, lib)
    ELSE IF lib = "client_error" THEN [url |-> NoURL, err |-> ErrClient]
    ELSE PresignerGetObject(bucket, file, lifetimeSecs, lib)

getPresignedURL(config, bucket, file, lifetimeSecs, lib) ==
    IF config.ServiceName = "minio"
    THEN MinioPresignedGetObject(bucket, file, lifetimeSecs, lib)
    ELSE IF config.ServiceName = "S3" \/ config.ServiceName = "R2"
    THEN IF lib = "client_error" THEN [url |-> NoURL, err |-> ErrClient]
         ELSE PresignerGetObject(bucket, file, lifetimeSecs, lib)
    ELSE [url |-> NoURL, err |-> ErrUnsupported]


(***************************************************************************)
(* The response.  A body is the diagnostic text written with fmt.Fprintf   *)
(* and the object bytes written by http.ServeContent.                      *)
(***************************************************************************)
NoHeader == [name \in {} |-> <<>>]

\* a ResponseWriter nothing was written to (status 0: no response sent)
NoResponse == [status |-> 0, header |-> NoHeader, text |-> <<>>, bytes |-> <<>>]

\* fmt.Fprintf(w, format, err) and return: the first write sends status 200
Fprintf(format, e) ==
    [status |-> 200, header |-> NoHeader, text |-> <<format, e>>, bytes |-> <<>>]

Without(header, names) == [name \in (DOMAIN header) \ names |-> header[name]]

\* the headers handleRequest sets before serving
ServeHeaders(buf) ==
    ("Content-Type" :> "application/octet-stream") @@
    ("Accept-Ranges" :> "bytes") @@
    ("Content-Length" :> Itoa(Len(buf))) @@
    ("Access-Control-Allow-Origin" :> "*")

NoRange == [start |-> -1, end |-> -1]

\* http.Error as ServeContent uses it
HttpError(header, msg, code) ==
    [status |-> code,
     header |-> Without(header, {"Content-Length"}) @@
                ("Content-Type" :> "text/plain; charset=utf-8"),
     text   |-> <<msg>>,
     bytes  |-> <<>>]

\* the buffer written with w.Write instead of http.ServeContent
WriteWholeBody(header, req, content) ==
    [status |-> 200, header |-> header, text |-> <<>>, bytes |-> content]

\* http.ServeContent(w, r, name, time.Time{}, content) on a writer whose
\* headers are header: preconditions, then the Range header, then the body
ServeContent(header, req, content) ==
    LET size == Len(content)
        rg   == req.Range
    IN  IF req.IfNoneMatch = "*"
        THEN \* checkIfNoneMatch fails for GET and HEAD: 304 Not Modified
             [status |-> 304,
              header |-> Without(header, {"Content-Type", "Content-Length"}),
              text |-> <<>>, bytes |-> <<>>]
        ELSE IF rg # NoRange /\ rg.start >= size /\ size # 0
        THEN \* no range overlaps the content
             HttpError(header @@ ("Content-Range" :> <<"bytes */", Itoa(size)>>),
                       "invalid range: failed to overlap", 416)
        ELSE IF rg # NoRange /\ rg.start < size /\ rg.start > rg.end
        THEN HttpError(header, "invalid range", 416)
        ELSE IF rg # NoRange /\ rg.start < size
        THEN \* one satisfiable range: 206 Partial Content
             LET last   == IF rg.end >= size THEN size - 1 ELSE rg.end
                 length == last - rg.start + 1
             IN  [status |-> 206,
                  header |-> ("Content-Range" :>
                                 <<"bytes ", Itoa(rg.start), "-", Itoa(last),
                                   "/", Itoa(size)>>) @@
                             ("Content-Length" :> Itoa(length)) @@ header,
                  text   |-> <<>>,
                  bytes  |-> IF req.Method = "HEAD" THEN <<>>
                             ELSE SubSeq(content, rg.start + 1, last + 1)]
        ELSE [status |-> 200,
              header |-> ("Content-Length" :> Itoa(size)) @@ header,
              text   |-> <<>>,
              bytes  |-> IF req.Method = "HEAD" THEN <<>> ELSE content]


(***************************************************************************)
(* Inputs: the requests the mux hands to handleRequest, and the backend.   *)
(***************************************************************************)
PathChars == {"a", "/"}

StreamPrefix == <<"/", "s", "t", "r", "e", "a", "m", "/">>

\* net/http's ServeMux redirects a path that is not clean, so the handler
\* sees no empty segment except a trailing one
IsCleanRest(rest) ==
    /\ rest # <<>> => rest[1] # "/"
    /\ \A k \in 1..(Len(rest) - 1) : ~(rest[k] = "/" /\ rest[k + 1] = "/")

Rests ==
    {rest \in UNION {[1..n -> PathChars] : n \in 0..MaxRest} : IsCleanRest(rest)}

\* the paths routed to handleRequest by http.HandleFunc("/stream/", ...)
RoutedPaths == {StreamPrefix \o rest : rest \in Rests}

Ranges == {[start |-> s, end |-> e] : s \in 0..MaxBody, e \in 0..MaxBody}

PlainGet(path) ==
    [Path |-> path, Method |-> "GET", Range |-> NoRange, IfNoneMatch |-> ""]

\* a plain GET, a HEAD, a conditional GET, or a GET of one byte range
RequestsFor(path) ==
    {PlainGet(path),
     [PlainGet(path) EXCEPT !.Method = "HEAD"],
     [PlainGet(path) EXCEPT !.IfNoneMatch = "*"]}
    \cup {[PlainGet(path) EXCEPT !.Range = rg] : rg \in Ranges}

Requests == UNION {RequestsFor(path) : path \in RoutedPaths}

Bytes == {0, 1}

Bodies == UNION {[1..n -> Bytes] : n \in 0..MaxBody}

\* an upstream answer: a success or a missing object, with its body
Upstreams == [status : {200, 404}, body : Bodies]

ServiceNames == {"minio", "S3", "R2", "gcs"}

\* a few requests and answers for the concurrent specification
ConcurrentCases ==
    {[req |-> PlainGet(StreamPrefix \o <<"a", "/", "a", "a", "/", "a">>),
      up  |-> [status |-> 200, body |-> <<0, 1>>]],
     [req |-> [PlainGet(StreamPrefix \o <<"a", "a", "/", "a", "/", "a">>)
                  EXCEPT !.Range = [start |-> 0, end |-> 0]],
      up  |-> [status |-> 200, body |-> <<1, 0>>]],
     [req |-> PlainGet(StreamPrefix \o <<"a">>),
      up  |-> [status |-> 404, body |-> <<>>]]}

ErrTransport == "transport error"
ErrRead == "unexpected EOF"

NilResponse == [status |-> 0, body |-> <<>>]

\* the state when the server starts accepting requests: loadConfig has run,
\* and the requests in ids are about to enter handleRequest
InitRequests(ids, cases) ==
    /\ globalConfig \in [ServiceName : ServiceNames]
    /\ \E chosen \in [ids -> cases] :
          /\ r = [i \in ids |-> chosen[i].req]
          /\ upstream = [i \in ids |-> chosen[i].up]
    /\ pc = [i \in ids |-> "start"]
    /\ bucketName = [i \in ids |-> <<>>]
    /\ fileName = [i \in ids |-> <<>>]
    /\ presignedURL = [i \in ids |-> NoURL]
    /\ err = [i \in ids |-> NoError]
    /\ getResponse = [i \in ids |-> NilResponse]
    /\ buffer = [i \in ids |-> <<>>]
    /\ w = [i \in ids |-> NoResponse]
    /\ steps = [i \in ids |-> <<>>]

Init ==
    /\ InitRequests({1}, [req : Requests, up : Upstreams])
    /\ call = <<>>
    /\ ret = <<>>

InitConcurrent ==
    /\ InitRequests(1..NumConcurrent, ConcurrentCases)
    /\ call = <<>>
    /\ ret = <<>>

(***************************************************************************)
(* handleRequest, one action per call it makes.                            *)
(***************************************************************************)
Leave(vs) == UNCHANGED <<globalConfig, r, upstream, call, ret, vs>>

\* lines 134-136, when an extract function panics: net/http recovers the
\* panic and closes the connection, nothing was written
ExtractPanic(i) ==
    /\ pc[i] = "start"
    /\ LET path == TrimPrefix(r[i].Path, StreamPrefix)
       IN  extractBucketNamePanics(path) \/ extractFileNamePanics(path)
    /\ pc' = [pc EXCEPT ![i] = "panicked"]
    /\ Leave(<<bucketName, fileName, presignedURL, err, getResponse, buffer,
               w, steps>>)

\* lines 134-136
Extract(i) ==
    /\ pc[i] = "start"
    /\ LET path == TrimPrefix(r[i].Path, StreamPrefix)
       IN  /\ ~extractBucketNamePanics(path)
           /\ ~extractFileNamePanics(path)
           /\ bucketName' = [bucketName EXCEPT ![i] = extractBucketName(path)]
           /\ fileName' = [fileName EXCEPT ![i] = extractFileName(path)]
    /\ pc' = [pc EXCEPT ![i] = "resolve"]
    /\ Leave(<<presignedURL, err, getResponse, buffer, w, steps>>)

\* handleRequest without the return after the resolution error
AfterResolveNoReturn(e) == "fetch"

\* where handleRequest goes after getPresignedURL returned e
AfterResolve(e) == IF e # NoError THEN "done" ELSE "fetch"

\* lines 144-148
Resolve(i) ==
    /\ pc[i] = "resolve"
    /\ \E lib \in LibOutcomes :
          LET res == getPresignedURL(globalConfig, bucketName[i], fileName[i],
                                     Int64(RequestLifetimeSecs), lib)
          IN  /\ presignedURL' = [presignedURL EXCEPT ![i] = res.url]
              /\ err' = [err EXCEPT ![i] = res.err]
              /\ w' = IF res.err # NoError
                      THEN [w EXCEPT ![i] =
                               Fprintf("Error getting presigned URL: ", res.err)]
                      ELSE w
              /\ pc' = [pc EXCEPT ![i] = AfterResolve(res.err)]
    /\ steps' = [steps EXCEPT ![i] = Append(@, "getPresignedURL")]
    /\ Leave(<<bucketName, fileName, getResponse, buffer>>)

\* lines 154-158, http.Get fails: only a transport failure is an error
FetchError(i) ==
    /\ pc[i] = "fetch"
    /\ err' = [err EXCEPT ![i] = ErrTransport]
    /\ w' = [w EXCEPT ![i] = Fprintf("Error getting object: ", ErrTransport)]
    /\ pc' = [pc EXCEPT ![i] = "done"]
    /\ steps' = [steps EXCEPT ![i] = Append(@, "http.Get")]
    /\ Leave(<<bucketName, fileName, presignedURL, getResponse, buffer>>)

\* lines 154-160, http.Get returns a response, whatever its status
Fetch(i) ==
    /\ pc[i] = "fetch"
    /\ getResponse' = [getResponse EXCEPT ![i] = upstream[i]]
    /\ pc' = [pc EXCEPT ![i] = "read"]
    /\ steps' = [steps EXCEPT ![i] = Append(@, "http.Get")]
    /\ Leave(<<bucketName, fileName, presignedURL, err, buffer, w>>)

\* io.Copy into a buffer that is a package-level variable
ReadChunkShared(i) ==
    /\ pc[i] = "read"
    /\ Len(buffer[i]) < Len(getResponse[i].body)
    /\ buffer' = [j \in DOMAIN buffer |->
                     Append(buffer[j], getResponse[i].body[Len(buffer[i]) + 1])]
    /\ Leave(<<pc, bucketName, fileName, presignedURL, err, getResponse, w,
               steps>>)

\* line 163, io.Copy moves the next byte of the body into the buffer
ReadChunk(i) ==
    /\ pc[i] = "read"
    /\ Len(buffer[i]) < Len(getResponse[i].body)
    /\ buffer' = [buffer EXCEPT
                     ![i] = Append(@, getResponse[i].body[Len(@) + 1])]
    /\ Leave(<<pc, bucketName, fileName, presignedURL, err, getResponse, w,
               steps>>)

\* lines 163-167, io.Copy returns an error
ReadError(i) ==
    /\ pc[i] = "read"
    /\ err' = [err EXCEPT ![i] = ErrRead]
    /\ w' = [w EXCEPT ![i] = Fprintf("Error reading object: ", ErrRead)]
    /\ pc' = [pc EXCEPT ![i] = "done"]
    /\ steps' = [steps EXCEPT ![i] = Append(@, "io.Copy")]
    /\ Leave(<<bucketName, fileName, presignedURL, getResponse, buffer>>)

\* line 163, io.Copy reaches the end of the body
ReadEOF(i) ==
    /\ pc[i] = "read"
    /\ Len(buffer[i]) = Len(getResponse[i].body)
    /\ pc' = [pc EXCEPT ![i] = "serve"]
    /\ steps' = [steps EXCEPT ![i] = Append(@, "io.Copy")]
    /\ Leave(<<bucketName, fileName, presignedURL, err, getResponse, buffer,
               w>>)

\* the buffer served one byte short
ServeDropsLast(i) ==
    /\ pc[i] = "serve"
    /\ w' = [w EXCEPT
                ![i] = ServeContent(ServeHeaders(buffer[i]), r[i],
                                    SubSeq(buffer[i], 1, Len(buffer[i]) - 1))]
    /\ pc' = [pc EXCEPT ![i] = "done"]
    /\ steps' = [steps EXCEPT ![i] = Append(@, "http.ServeContent")]
    /\ Leave(<<bucketName, fileName, presignedURL, err, getResponse, buffer>>)

\* lines 169-175
Serve(i) ==
    /\ pc[i] = "serve"
    /\ w' = [w EXCEPT
                ![i] = ServeContent(ServeHeaders(buffer[i]), r[i], buffer[i])]
    /\ pc' = [pc EXCEPT ![i] = "done"]
    /\ steps' = [steps EXCEPT ![i] = Append(@, "http.ServeContent")]
    /\ Leave(<<bucketName, fileName, presignedURL, err, getResponse, buffer>>)

Next ==
    \/ \E i \in DOMAIN pc : ExtractPanic(i)
    \/ \E i \in DOMAIN pc : Extract(i)
    \/ \E i \in DOMAIN pc : Resolve(i)
    \/ \E i \in DOMAIN pc : FetchError(i)
    \/ \E i \in DOMAIN pc : Fetch(i)
    \/ \E i \in DOMAIN pc : ReadChunk(i)
    \/ \E i \in DOMAIN pc : ReadError(i)
    \/ \E i \in DOMAIN pc : ReadEOF(i)
    \/ \E i \in DOMAIN pc : Serve(i)

Spec == Init /\ [][Next]_vars

SpecConcurrent == InitConcurrent /\ [][Next]_vars


(***************************************************************************)
(* getPresignedURL called directly, twice, with two lifetimes.             *)
(***************************************************************************)
\* lifetimes around the values where lifetimeSecs * 10^9 leaves int64:
\* 9223372036 is the largest whose product fits, and 2^55 + 10 has the
\* product of 10 modulo 2^64
MaxExactSecs == Int64Of(9, 223372036)

Lifetimes ==
    {Neg64(Int64(1)), Int64(0), Int64(1), Int64(10), Int64(60), Int64(3600),
     MaxExactSecs, Int64Of(9, 223372037), Int64Of(36028797, 18963978)}

InitPresign ==
    /\ globalConfig \in [ServiceName : ServiceNames]
    /\ call \in [bucket : {<<"a">>}, file : {<<"a", "/", "a">>},
                 lifetimeSecs : Lifetimes \X Lifetimes, lib : LibOutcomes]
    /\ ret = <<>>
    /\ r = <<>> /\ upstream = <<>> /\ pc = <<>>
    /\ bucketName = <<>> /\ fileName = <<>> /\ presignedURL = <<>>
    /\ err = <<>> /\ getResponse = <<>> /\ buffer = <<>> /\ w = <<>>
    /\ steps = <<>>

\* the two calls return
PresignCalls ==
    /\ ret = <<>>
    /\ ret' = [k \in 1..2 |->
                  getPresignedURL(globalConfig, call.bucket, call.file,
                                  call.lifetimeSecs[k], call.lib)]
    /\ UNCHANGED <<globalConfig, r, pc, bucketName, fileName, presignedURL,
                   err, getResponse, buffer, w, steps, upstream, call>>

NextPresign == PresignCalls

SpecPresign == InitPresign /\ [][NextPresign]_vars


(***************************************************************************)
(* Properties.                                                             *)
(***************************************************************************)
Ids == DOMAIN pc

Called(i, step) == \E k \in 1..Len(steps[i]) : steps[i][k] = step

\* the path of request i after the "/stream/" prefix
RestOf(i) == TrimPrefix(r[i].Path, StreamPrefix)

HasSlash(s) == \E k \in 1..Len(s) : s[k] = "/"

FirstSlash(s) == CHOOSE k \in 1..Len(s) : s[k] = "/" /\ \A m \in 1..(k - 1) : s[m] # "/"

\* {bucket} and {key} of a path remainder "{bucket}/{key}"
BucketOfRoute(s) == SubSeq(s, 1, FirstSlash(s) - 1)
KeyOfRoute(s) == SubSeq(s, FirstSlash(s) + 1, Len(s))

\* a remainder of the form {bucket}/{key}, both non-empty
IsRoute(s) == HasSlash(s) /\ BucketOfRoute(s) # <<>> /\ KeyOfRoute(s) # <<>>

KnownServices == {"minio", "S3", "R2"}

\* C1: for a path /stream/{bucket}/{key} with non-empty bucket and key, the
\* pair handleRequest extracts and passes on is exactly (bucket, key): the
\* bucket is the first segment after the prefix, the key all that follows.
C1_ExtractsBucketAndKey ==
    \A i \in Ids :
        (pc[i] # "start" /\ IsRoute(RestOf(i))) =>
            /\ pc[i] # "panicked"
            /\ bucketName[i] = BucketOfRoute(RestOf(i))
            /\ fileName[i] = KeyOfRoute(RestOf(i))

\* C5: the object key handed to getPresignedURL is never empty: a request
\* whose key would be empty fails before any resolution or fetch.
C5_KeyNeverEmpty ==
    \A i \in Ids : Called(i, "getPresignedURL") => fileName[i] # <<>>

\* the outbound GET of request i failed, in the sense of the specification:
\* a transport error or an upstream status that is not 2xx
FetchFailed(i) ==
    \/ err[i] = ErrTransport
    \/ /\ getResponse[i] # NilResponse
       /\ getResponse[i].status \notin 200..299

\* C3: whenever the outbound GET fails (transport error or non-2xx status),
\* the caller gets a descriptive error text and no byte of the upstream body.
C3_FetchFailureGivesErrorText ==
    \A i \in Ids :
        (pc[i] = "done" /\ FetchFailed(i)) =>
            /\ w[i].text # <<>>
            /\ w[i].bytes = <<>>

\* request i ended in failure: the handler panicked on the path, or stopped
\* on an error of the resolution, the fetch or the read
EndedInFailure(i) ==
    \/ pc[i] = "panicked"
    \/ pc[i] = "done" /\ err[i] # NoError

\* C6: every request that ends in failure, on any failure path, is answered
\* with status 200 and a plaintext diagnostic carrying the error.
C6_FailureAnswered200 ==
    \A i \in Ids :
        EndedInFailure(i) =>
            /\ w[i].status = 200
            /\ w[i].text # <<>>

\* C4: with a SERVICE_NAME other than "minio", "S3" and "R2", every
\* resolution returns the unsupported-backend error with the empty URL, and
\* handleRequest performs neither the outbound GET nor the read nor the serve.
C4_UnsupportedNeverFetches ==
    globalConfig.ServiceName \notin KnownServices =>
        \A i \in Ids :
            /\ pc[i] \notin {"fetch", "read", "serve"}
            /\ ~Called(i, "http.Get")
            /\ ~Called(i, "io.Copy")
            /\ ~Called(i, "http.ServeContent")
            /\ getResponse[i] = NilResponse
            /\ w[i].bytes = <<>>
            /\ Called(i, "getPresignedURL") =>
                  /\ err[i] = ErrUnsupported
                  /\ presignedURL[i] = NoURL
                  /\ w[i] = Fprintf("Error getting presigned URL: ",
                                    ErrUnsupported)

\* C4 witness: a request resolved under an unsupported SERVICE_NAME
C4_Witness ==
    \E i \in Ids :
        /\ globalConfig.ServiceName \notin KnownServices
        /\ pc[i] = "done"
        /\ Called(i, "getPresignedURL")
        /\ err[i] = ErrUnsupported


\* lifetimeSecs * 10^9 computed without wrapping, in 128 bits
ExactNanoseconds(lifetimeSecs) ==
    MulLimbs(SignExtend(lifetimeSecs, 2 * Int64Limbs),
             SignExtend(Int64(Second), 2 * Int64Limbs))

\* the duration d is exactly lifetimeSecs seconds
IsExactlySeconds(d, lifetimeSecs) ==
    SignExtend(d, 2 * Int64Limbs) = ExactNanoseconds(lifetimeSecs)

Returned == ret # <<>> /\ call.lib = "ok"

\* the minio half of C7: one fixed expiry, whatever the lifetime asked for
MinioExpiryFixed ==
    (Returned /\ globalConfig.ServiceName = "minio") =>
        \A k \in 1..2 :
            ret[k].url.expires = DurationOfSeconds(Int64(MinioExpirySecs))

InExactRange(lifetimeSecs) ==
    LessEq64(Int64(1), lifetimeSecs) /\ LessEq64(lifetimeSecs, MaxExactSecs)

Served(i) == pc[i] = "done" /\ Called(i, "http.ServeContent")

HasHeader(i, name, value) ==
    name \in DOMAIN w[i].header /\ w[i].header[name] = value

\* Content-Length of the response is the number of body bytes written, and
\* these bytes are the upstream body
RoundTrip(i) ==
    /\ HasHeader(i, "Content-Length", Itoa(Len(w[i].bytes)))
    /\ w[i].bytes = upstream[i].body

\* C2: on a successful fetch the response's Content-Length is the exact
\* number of body bytes written and the body is, byte for byte, the body
\* the upstream served.
C2_RoundTrip == \A i \in Ids : Served(i) => RoundTrip(i)

IsPlainGet(req) == req = PlainGet(req.Path)

\* C2 as amended: the same, for a GET that carries neither a Range nor a
\* conditional header.
C2_RoundTripPlainGet ==
    \A i \in Ids : (Served(i) /\ IsPlainGet(r[i])) => RoundTrip(i)

\* C2 witness: a plain GET served a two-byte upstream body
C2_Witness ==
    \E i \in Ids :
        /\ Served(i)
        /\ IsPlainGet(r[i])
        /\ upstream[i] = [status |-> 200, body |-> <<0, 1>>]
        /\ w[i].bytes = <<0, 1>>

\* the four headers of a served response, with the given Content-Length
ServedHeaders(i, length) ==
    /\ HasHeader(i, "Content-Type", "application/octet-stream")
    /\ HasHeader(i, "Accept-Ranges", "bytes")
    /\ HasHeader(i, "Content-Length", Itoa(length))
    /\ HasHeader(i, "Access-Control-Allow-Origin", "*")

FullResponse(i) ==
    /\ w[i].status = 200
    /\ w[i].bytes = buffer[i]
    /\ ServedHeaders(i, Len(buffer[i]))

\* C9: Range requests are not honored: every successful response, whatever
\* headers the request carries, has status 200, the complete buffered object
\* as body and the four headers; no partial (206) body is ever served.
C9_RangeNotHonoured == \A i \in Ids : Served(i) => FullResponse(i)

\* a GET of one byte range that overlaps the buffered object
IsSatisfiableRangeGet(i) ==
    /\ r[i].Method = "GET"
    /\ r[i].IfNoneMatch = ""
    /\ r[i].Range # NoRange
    /\ r[i].Range.start <= r[i].Range.end
    /\ r[i].Range.start < Len(buffer[i])

\* the bytes of buffer[i] that the range of request i names
RangeOf(i) ==
    LET last == IF r[i].Range.end >= Len(buffer[i]) THEN Len(buffer[i]) - 1
                ELSE r[i].Range.end
    IN  SubSeq(buffer[i], r[i].Range.start + 1, last + 1)

\* C9 as amended: a GET without Range and conditional headers is answered
\* 200 with the complete buffered object and the four headers; a GET of one
\* satisfiable byte range is honored: 206, the bytes of the range, their
\* number as Content-Length, the other three headers as before.
C9_FullUnlessRange ==
    \A i \in Ids :
        /\ (Served(i) /\ IsPlainGet(r[i])) => FullResponse(i)
        /\ (Served(i) /\ IsSatisfiableRangeGet(i)) =>
              /\ w[i].status = 206
              /\ w[i].bytes = RangeOf(i)
              /\ ServedHeaders(i, Len(RangeOf(i)))

\* C9 witness: the first byte of a two-byte object served as 206
C9_Witness ==
    \E i \in Ids :
        /\ Served(i)
        /\ r[i].Range = [start |-> 0, end |-> 0]
        /\ buffer[i] = <<1, 0>>
        /\ w[i].status = 206
        /\ w[i].bytes = <<1>>

\* the calls of one request, in the order of handleRequest
StepOrder == <<"getPresignedURL", "http.Get", "io.Copy", "http.ServeContent">>

IsPrefix(s, t) == Len(s) <= Len(t) /\ SubSeq(t, 1, Len(s)) = s

\* C10: within one request the steps run in the order resolve, fetch, read,
\* serve, each at most once and only after the one before succeeded: the GET
\* is issued only with a URL resolved without error, no object byte is
\* written before the whole body is in the buffer, and after a failed step
\* no later step runs and none is retried.
C10_StepsInOrder ==
    \A i \in Ids :
        /\ IsPrefix(steps[i], StepOrder)
        /\ (Called(i, "http.Get") \/ pc[i] = "fetch") =>
              presignedURL[i] # NoURL
        /\ Called(i, "io.Copy") => getResponse[i] # NilResponse
        /\ (w[i].bytes # <<>> \/ Called(i, "http.ServeContent")) =>
              /\ Called(i, "io.Copy")
              /\ buffer[i] = getResponse[i].body
              /\ err[i] = NoError
        /\ w[i].status # 0 => pc[i] = "done"
        /\ err[i] \in {ErrUnsupported, ErrClient, ErrPresign} =>
              pc[i] = "done" /\ steps[i] = SubSeq(StepOrder, 1, 1)
        /\ err[i] = ErrTransport =>
              pc[i] = "done" /\ steps[i] = SubSeq(StepOrder, 1, 2)
        /\ err[i] = ErrRead =>
              pc[i] = "done" /\ steps[i] = SubSeq(StepOrder, 1, 3)

\* C10 witness: a request went through all four steps
C10_Witness ==
    \E i \in Ids :
        /\ pc[i] = "done"
        /\ steps[i] = StepOrder
        /\ w[i].bytes = <<0, 1>>


\* the response of request i had it run alone: a function of its own
\* request, of the answer of the backend to it and of the error it met
ResponseAlone(i) ==
    LET path == RestOf(i)
    IN  IF extractBucketNamePanics(path) THEN NoResponse
        ELSE IF err[i] \in {ErrUnsupported, ErrClient, ErrPresign}
        THEN Fprintf("Error getting presigned URL: ", err[i])
        ELSE IF err[i] = ErrTransport
        THEN Fprintf("Error getting object: ", err[i])
        ELSE IF err[i] = ErrRead
        THEN Fprintf("Error reading object: ", err[i])
        ELSE ServeContent(ServeHeaders(upstream[i].body), r[i],
                          upstream[i].body)

\* the values request i holds come from its own request and answer
OwnValues(i) ==
    /\ pc[i] \notin {"start", "panicked"} =>
          /\ bucketName[i] = extractBucketName(RestOf(i))
          /\ fileName[i] = extractFileName(RestOf(i))
    /\ presignedURL[i] # NoURL =>
          presignedURL[i] =
              getPresignedURL(globalConfig, extractBucketName(RestOf(i)),
                              extractFileName(RestOf(i)),
                              Int64(RequestLifetimeSecs), "ok").url
    /\ getResponse[i] \in {NilResponse, upstream[i]}
    /\ IsPrefix(buffer[i], upstream[i].body)
    /\ pc[i] \in {"done", "panicked"} => w[i] = ResponseAlone(i)
    /\ pc[i] \notin {"done", "panicked"} => w[i] = NoResponse

\* the locals of request i in handleRequest
Locals(i) ==
    <<pc[i], bucketName[i], fileName[i], presignedURL[i], err[i],
      getResponse[i], buffer[i], w[i], steps[i]>>

\* a step changes the locals of one request at most, and never globalConfig
OneRequestSteps ==
    /\ globalConfig' = globalConfig
    /\ \E i \in Ids : \A j \in Ids \ {i} : Locals(j)' = Locals(j)

\* C8: under any interleaving of concurrent requests each request's outcome
\* (bucket, key, URL, bytes, Content-Length or error) is what it would be
\* alone: no request reads or writes a value of another, and globalConfig is
\* never written after loadConfig.
C8_NoInterference ==
    /\ [](\A i \in Ids : OwnValues(i))
    /\ [][OneRequestSteps]_vars

\* C8 witness: two requests for different objects, both served their own
\* bytes, the second one its range
C8_Witness ==
    \E i, j \in Ids :
        /\ i # j
        /\ Served(i) /\ Served(j)
        /\ r[i].Path # r[j].Path
        /\ w[i].bytes = <<0, 1>>
        /\ w[j].status = 206
        /\ w[j].bytes = <<1>>

====
